---- MODULE Spec2Model ----
(***************************************************************************)
(* A model of dot.cpp: the Matrix container (a heap buffer addressed       *)
(* row-major without bounds checks), the multiply kernel dot, the random   *)
(* filler fill_rand and the benchmark driver main.                         *)
(*                                                                         *)
(* The heap is a sequence of buffers; a Matrix object is the record        *)
(* [data, n, m] of dot.cpp:8-10, data being the index of its buffer.       *)
(* Every loop of the source is modelled by its head (the test) and its     *)
(* body, one action each.  fpc is the position inside the function that    *)
(* is running (dot, fill_rand or an element access), pc the position of    *)
(* its caller.  An access that the language leaves undefined raises fault   *)
(* and moves fpc to "undefined": nothing is known of the program after it. *)
(*                                                                         *)
(* An element is a single-precision value: the record [sig, exp] stands    *)
(* for sig * 2^exp, with 2^23 <= |sig| < 2^24 or sig = 0.  Conversions and  *)
(* arithmetic round to nearest, ties to even, as the float operations of   *)
(* the source do; exponents stay far inside the normal range.  PackOf,     *)
(* SumOf, ProductOf and QuotientOf are the operations as functions of the  *)
(* operand values, so that an operand is computed once.                    *)
(***************************************************************************)
EXTENDS Integers, Sequences, FiniteSets, TLC

VARIABLES
    pc,      \* where main is
    fpc,     \* where the function main called is ("idle": main itself runs)
    heap,    \* the buffers allocated so far, released ones included
    fault,   \* an access with undefined behaviour has happened
    rng,     \* the values rand() may return
    seeds,   \* the number of srand calls so far
    a, b,    \* main's operands
    s, it,   \* main's accumulator and loop counter
    st, ed,  \* main's two clock readings
    out,     \* the lines written, in order
    log,     \* the calls main has made, in order
    c, i, j, k, acc, ret,   \* dot's result matrix, counters, accumulator s, result
    fm, fi, fj              \* fill_rand's argument and counters

mainVars == <<pc, a, b, s, it, st, ed, out, seeds, log>>
dotVars  == <<c, i, j, k, acc, ret>>
fillVars == <<fm, fi, fj>>
vars == <<fpc, heap, fault, rng, mainVars, dotVars, fillVars>>

\* The driver's dimensions and iteration count (dot.cpp:37 sets them to
\* 100, 200, 50 and 100); the model runs the same code at a reduced size.
n == 1
p == 2
m == 1
T == 2

\* The largest operands the harness specifications build: MaxN by MaxP and
\* MaxP by MaxM.
MaxN == 2
MaxP == 2
MaxM == 1

\* The second clock reading differs from the first by at most MaxClock
\* ticks, either way.
MaxClock == 1

\* The number of assignments the caller of the container specification makes.
MaxOps == 2

(***************************************************************************)
(* float (the element type of dot.cpp:8, and the arithmetic of lines 23    *)
(* and 32)                                                                 *)
(***************************************************************************)

SigBits == 24

Zero == [sig |-> 0, exp |-> 0]

Sign(v) == IF v < 0 THEN -1 ELSE 1

Abs(v) == IF v < 0 THEN -v ELSE v

RECURSIVE BitLen(_)
\* The number of binary digits of v >= 0.
BitLen(v) == IF v = 0 THEN 0 ELSE 1 + BitLen(v \div 2)

\* v / 2^sh rounded to nearest, ties to even.
RoundNearestEven(v, sh) ==
    IF sh = 0 THEN v
    ELSE LET q == v \div (2 ^ sh)
             r == v % (2 ^ sh)
             half == 2 ^ (sh - 1)
         IN  IF r > half \/ (r = half /\ q % 2 = 1) THEN q + 1 ELSE q

\* v / 2^sh rounded to odd: the bits shifted out stay visible in the last
\* digit (the sticky bit of a hardware adder).
Jam(v, sh) ==
    LET q == v \div (2 ^ sh)
    IN  IF v % (2 ^ sh) # 0 /\ q % 2 = 0 THEN q + 1 ELSE q

\* The float nearest to sgn * v * 2^e, for an integer v >= 0 of bl digits.
Round(sgn, v, e, bl) ==
    IF bl <= SigBits
    THEN [sig |-> sgn * v * 2 ^ (SigBits - bl), exp |-> e - (SigBits - bl)]
    ELSE LET q == RoundNearestEven(v, bl - SigBits) IN
         IF q = 2 ^ SigBits
         THEN [sig |-> sgn * 2 ^ (SigBits - 1), exp |-> e + (bl - SigBits) + 1]
         ELSE [sig |-> sgn * q, exp |-> e + (bl - SigBits)]

\* The float nearest to t[1] * t[2] * 2^t[3], for an integer t[2] >= 0.
PackOf[t \in Int \X Int \X Int] ==
    IF t[2] = 0 THEN Zero ELSE Round(t[1], t[2], t[3], BitLen(t[2]))

Pack(sgn, v, e) == PackOf[<<sgn, v, e>>]

\* The set of floats.
Float == [sig : Int, exp : Int]

\* static_cast<float>(v), and the implicit conversion of an int operand.
IntToFloat(v) == Pack(Sign(v), Abs(v), 0)

FNeg(x) == [sig |-> -x.sig, exp |-> x.exp]

\* x + y.  The operand of smaller exponent is aligned with three guard
\* digits, the last of them sticky.
Sum(x, y) ==
    IF x.sig = 0 THEN y
    ELSE IF y.sig = 0 THEN x
    ELSE LET hi == IF x.exp >= y.exp THEN x ELSE y
             lo == IF x.exp >= y.exp THEN y ELSE x
             d  == IF hi.exp - lo.exp > SigBits + 3 THEN SigBits + 3 ELSE hi.exp - lo.exp
             sum == hi.sig * 8 + Sign(lo.sig) * Jam(Abs(lo.sig) * 8, d)
         IN  Pack(Sign(sum), Abs(sum), hi.exp - 3)

SumOf[t \in Float \X Float] == Sum(t[1], t[2])

FAdd(x, y) == SumOf[<<x, y>>]

FSub(x, y) == FAdd(x, FNeg(y))

\* The product of two significands, x * y / 2^21 rounded to odd.  The
\* factors are split in halves of 12 digits so that no partial product
\* needs more than 32 bits.
MulSig(x, y) ==
    LET half == 2 ^ 12
        hh   == (x \div half) * (y \div half)
        mid  == (x \div half) * (y % half) + (x % half) * (y \div half)
        low  == (mid % half) * half + (x % half) * (y % half)
        high == hh + mid \div half + low \div (2 ^ SigBits)
        rest == low % (2 ^ SigBits)
        q    == high * 8 + rest \div (2 ^ (SigBits - 3))
    IN  IF rest % (2 ^ (SigBits - 3)) # 0 /\ q % 2 = 0 THEN q + 1 ELSE q

\* x * y
Product(x, y) ==
    IF x.sig = 0 \/ y.sig = 0 THEN Zero
    ELSE Pack(Sign(x.sig) * Sign(y.sig),
              MulSig(Abs(x.sig), Abs(y.sig)),
              x.exp + y.exp + SigBits - 3)

ProductOf[t \in Float \X Float] == Product(t[1], t[2])

FMul(x, y) == ProductOf[<<x, y>>]

\* The quotient of two significands, x * 2^26 / y rounded to odd, by long
\* division in steps of 7, 7, 7 and 5 digits.
DivSig(x, y) ==
    LET q0 == x \div y
        r0 == x % y
        q1 == (r0 * 128) \div y
        r1 == (r0 * 128) % y
        q2 == (r1 * 128) \div y
        r2 == (r1 * 128) % y
        q3 == (r2 * 128) \div y
        r3 == (r2 * 128) % y
        q4 == (r3 * 32) \div y
        r4 == (r3 * 32) % y
        q  == (((q0 * 128 + q1) * 128 + q2) * 128 + q3) * 32 + q4
    IN  IF r4 # 0 /\ q % 2 = 0 THEN q + 1 ELSE q

\* x / y, for y # 0
Quotient(x, y) ==
    IF x.sig = 0 THEN Zero
    ELSE Pack(Sign(x.sig) * Sign(y.sig),
              DivSig(Abs(x.sig), Abs(y.sig)),
              x.exp - y.exp - (SigBits + 2))

QuotientOf[t \in Float \X Float] == Quotient(t[1], t[2])

FDiv(x, y) == QuotientOf[<<x, y>>]

\* x < y and x <= y
FLess(x, y) == FSub(x, y).sig < 0

FLeq(x, y) == FSub(x, y).sig <= 0

\* The integer a float holds, for a float that holds one below 2^24.
FloatToInt(x) == IF x.sig = 0 THEN 0 ELSE x.sig \div (2 ^ (-x.exp))

\* Values the harness specifications draw operand elements from.
ElemVals == {IntToFloat(0), IntToFloat(1)}
WideVals == {IntToFloat(-2), FDiv(IntToFloat(1), IntToFloat(3))}

\* What a read outside a live buffer, or of an element never written, may
\* yield: the behaviour is undefined, any value is possible.
UBVals == {IntToFloat(-1), Zero, IntToFloat(1)}

\* A Matrix variable before its constructor has run.
NoMatrix == [data |-> 0, n |-> 0, m |-> 0]

(***************************************************************************)
(* Matrix (dot.cpp:7-15)                                                   *)
(***************************************************************************)

\* new float[len]: a fresh buffer of len elements, none of them written.
Buffer(len) ==
    [len |-> len, cells |-> [x \in 0..(len - 1) |-> Zero], inited |-> {}, frees |-> 0]

\* Matrix(r, c): data(new float[r*c]), n(r), m(c).  The result is the object
\* and the heap with its buffer appended.
MatrixNew(h, r, cc) ==
    [obj |-> [data |-> Len(h) + 1, n |-> r, m |-> cc],
     heap |-> Append(h, Buffer(r * cc))]

\* A variant of MatrixDelete: the buffer is not released.
MatrixDeleteLeak(h, mat) == h

\* ~Matrix(): delete[] data.  Releasing counts; the contents are gone.
MatrixDelete(h, mat) ==
    [h EXCEPT ![mat.data] =
        [len |-> @.len, cells |-> [x \in {} |-> Zero], inited |-> {}, frees |-> @.frees + 1]]

\* A variant of Offset: the row stride taken from the row count.
OffsetRowCount(mat, x, y) == x * mat.n + y

\* operator(): the linear offset of element (x, y) is x*m+y.
Offset(mat, x, y) == x * mat.m + y

IsLive(h, mat) == mat.data \in 1..Len(h) /\ h[mat.data].frees = 0

\* The access data[x*m+y] stays inside the live buffer of mat.
InBuffer(h, mat, x, y) ==
    IsLive(h, mat) /\ Offset(mat, x, y) \in 0..(h[mat.data].len - 1)

\* The access reads an element that was written before.
Defined(h, mat, x, y) ==
    InBuffer(h, mat, x, y) /\ Offset(mat, x, y) \in h[mat.data].inited

\* float operator()(x, y) const: the values the read may yield.
Get(h, mat, x, y) ==
    IF Defined(h, mat, x, y) THEN {h[mat.data].cells[Offset(mat, x, y)]} ELSE UBVals

\* float& operator()(x, y) assigned v.  A write outside the buffer is
\* undefined; the model leaves the heap alone and raises fault.
Set(h, mat, x, y, v) ==
    IF InBuffer(h, mat, x, y)
    THEN [h EXCEPT ![mat.data].cells[Offset(mat, x, y)] = v,
                   ![mat.data].inited = @ \cup {Offset(mat, x, y)}]
    ELSE h

(***************************************************************************)
(* dot (dot.cpp:17-27)                                                     *)
(***************************************************************************)

\* A variant of Incr: the counter is not advanced.
IncrStuck(x) == x

\* ++i, ++j, ++k (also those of fill_rand and main)
Incr(x) == x + 1

\* A variant of InnerTest: the bound is the row count of the left operand.
InnerTestRows(x, left) == x < left.n

\* k < a.m
InnerTest(x, left) == x < left.m

\* A variant of DotAccumulate: the product is stored, not accumulated.
DotAccumulateOverwrite(sum, x, y) == FMul(x, y)

\* s += a(i, k) * b(k, j)
DotAccumulate(sum, x, y) == FAdd(sum, FMul(x, y))

\* Matrix c(a.n, b.m); i = 0
DotEnter ==
    /\ fpc = "dot_enter"
    /\ LET r == MatrixNew(heap, a.n, b.m) IN
         /\ c' = r.obj
         /\ heap' = r.heap
    /\ i' = 0
    /\ fpc' = "dot_i"
    /\ UNCHANGED <<j, k, acc, ret, fault, rng, mainVars, fillVars>>

\* for (i ...; i < a.n; ...): enter the body with j = 0
DotRow ==
    /\ fpc = "dot_i"
    /\ i < a.n
    /\ j' = 0
    /\ fpc' = "dot_j"
    /\ UNCHANGED <<heap, c, i, k, acc, ret, fault, rng, mainVars, fillVars>>

\* i < a.n fails: the loops are over
DotRowsDone ==
    /\ fpc = "dot_i"
    /\ ~(i < a.n)
    /\ fpc' = "dot_return"
    /\ UNCHANGED <<heap, c, i, j, k, acc, ret, fault, rng, mainVars, fillVars>>

\* for (j ...; j < b.m; ...): float s = 0; k = 0
DotCol ==
    /\ fpc = "dot_j"
    /\ j < b.m
    /\ acc' = Zero
    /\ k' = 0
    /\ fpc' = "dot_k"
    /\ UNCHANGED <<heap, c, i, j, ret, fault, rng, mainVars, fillVars>>

\* j < b.m fails: ++i
DotColsDone ==
    /\ fpc = "dot_j"
    /\ ~(j < b.m)
    /\ i' = Incr(i)
    /\ fpc' = "dot_i"
    /\ UNCHANGED <<heap, c, j, k, acc, ret, fault, rng, mainVars, fillVars>>

\* for (k ...; k < a.m; ++k) s += a(i, k) * b(k, j)
DotInner ==
    /\ fpc = "dot_k"
    /\ InnerTest(k, a)
    /\ \E x \in Get(heap, a, i, k), y \in Get(heap, b, k, j) :
         acc' = DotAccumulate(acc, x, y)
    /\ fault' = (fault \/ ~Defined(heap, a, i, k) \/ ~Defined(heap, b, k, j))
    /\ k' = Incr(k)
    /\ fpc' = IF fault' THEN "undefined" ELSE "dot_k"
    /\ UNCHANGED <<heap, c, i, j, ret, rng, mainVars, fillVars>>

\* k < a.m fails: c(i, j) = s; ++j
DotStore ==
    /\ fpc = "dot_k"
    /\ ~InnerTest(k, a)
    /\ heap' = Set(heap, c, i, j, acc)
    /\ fault' = (fault \/ ~InBuffer(heap, c, i, j))
    /\ j' = Incr(j)
    /\ fpc' = IF fault' THEN "undefined" ELSE "dot_j"
    /\ UNCHANGED <<c, i, k, acc, ret, rng, mainVars, fillVars>>

\* return c(0, 0): the value is read while c is alive
DotReturn ==
    /\ fpc = "dot_return"
    /\ \E v \in Get(heap, c, 0, 0) : ret' = v
    /\ fault' = (fault \/ ~Defined(heap, c, 0, 0))
    /\ fpc' = IF fault' THEN "undefined" ELSE "dot_dtor"
    /\ UNCHANGED <<heap, c, i, j, k, acc, rng, mainVars, fillVars>>

\* the closing brace of dot: c is destroyed, control is back in the caller
DotDestroy ==
    /\ fpc = "dot_dtor"
    /\ heap' = MatrixDelete(heap, c)
    /\ fault' = (fault \/ ~IsLive(heap, c))
    /\ fpc' = IF fault' THEN "undefined" ELSE "dot_done"
    /\ UNCHANGED <<c, i, j, k, acc, ret, rng, mainVars, fillVars>>

(***************************************************************************)
(* fill_rand (dot.cpp:29-33)                                               *)
(***************************************************************************)

\* The largest value of rand() (glibc's <cstdlib>, used at dot.cpp:32).
RAND_MAX == 2147483647

\* A variant of FillValue: the shift by one is lost.
FillValueUnshifted(r) ==
    FMul(FDiv(IntToFloat(r), IntToFloat(RAND_MAX)), IntToFloat(2))

\* rand() / static_cast<float>(RAND_MAX) * 2 - 1, for rand() = r
FillValue(r) ==
    FSub(FMul(FDiv(IntToFloat(r), IntToFloat(RAND_MAX)), IntToFloat(2)), IntToFloat(1))

\* The values of rand() the fill specification draws: both ends, and the
\* two values between which the conversion to float starts to round up to
\* 2^31 (2^31 - 65 rounds down, 2^31 - 64 is the tie that rounds to even).
RandSamples == {0, 2147483583, 2147483584, RAND_MAX}

\* The values of rand() the driver draws: those that fill with -1 and 1.
RandEnds == {0, RAND_MAX}

\* for (i ...; i < a.n; ...): enter the body with j = 0
FillRow ==
    /\ fpc = "fill_i"
    /\ fi < fm.n
    /\ fj' = 0
    /\ fpc' = "fill_j"
    /\ UNCHANGED <<heap, fault, rng, fm, fi, mainVars, dotVars>>

\* i < a.n fails: fill_rand returns
FillRowsDone ==
    /\ fpc = "fill_i"
    /\ ~(fi < fm.n)
    /\ fpc' = "fill_done"
    /\ UNCHANGED <<heap, fault, rng, fillVars, mainVars, dotVars>>

\* for (j ...; j < a.m; ++j) a(i, j) = rand() / ... * 2 - 1
FillElement ==
    /\ fpc = "fill_j"
    /\ fj < fm.m
    /\ \E r \in rng : heap' = Set(heap, fm, fi, fj, FillValue(r))
    /\ fault' = (fault \/ ~InBuffer(heap, fm, fi, fj))
    /\ fj' = Incr(fj)
    /\ fpc' = IF fault' THEN "undefined" ELSE "fill_j"
    /\ UNCHANGED <<rng, fm, fi, mainVars, dotVars>>

\* j < a.m fails: ++i
FillColsDone ==
    /\ fpc = "fill_j"
    /\ ~(fj < fm.m)
    /\ fi' = Incr(fi)
    /\ fpc' = "fill_i"
    /\ UNCHANGED <<heap, fault, rng, fm, fj, mainVars, dotVars>>

(***************************************************************************)
(* main (dot.cpp:35-50)                                                    *)
(***************************************************************************)

\* A variant of LoopTest: one iteration too many.
LoopTestInclusive(x) == x <= T

\* i < T
LoopTest(x) == x < T

\* A variant of LoopAccumulate: the result is assigned, not added.
LoopAccumulateAssign(sum, r) == r

\* s += dot(a, b)
LoopAccumulate(sum, r) == FAdd(sum, r)

\* std::chrono::system_clock::now(): the wall clock, which the system may
\* set forward or back at any time, so a reading is any value.  Only the
\* difference of the two readings is used: readings are counted from the
\* first one, t0.
Now(t0) == (t0 - MaxClock)..(t0 + MaxClock)

\* std::cerr << s << std::endl
ErrLine(v) == [chan |-> "cerr", val |-> v]

\* std::cout << T << " loops. average " << diff.count() * 1e6 / T << "us"
OutLine(t0, t1) == [chan |-> "cout", loops |-> T, elapsed |-> t1 - t0, per |-> T]

\* srand((unsigned)time(NULL))
Seed ==
    /\ pc = "seed"
    /\ seeds' = seeds + 1
    /\ log' = Append(log, "srand")
    /\ pc' = "ctor_a"
    /\ UNCHANGED <<fpc, heap, fault, rng, a, b, s, it, st, ed, out, dotVars, fillVars>>

\* Matrix a(n, p)
CtorA ==
    /\ pc = "ctor_a"
    /\ LET r == MatrixNew(heap, n, p) IN
         /\ a' = r.obj
         /\ heap' = r.heap
    /\ pc' = "ctor_b"
    /\ UNCHANGED <<fpc, fault, rng, b, s, it, st, ed, out, seeds, log, dotVars, fillVars>>

\* Matrix b(p, m)
CtorB ==
    /\ pc = "ctor_b"
    /\ LET r == MatrixNew(heap, p, m) IN
         /\ b' = r.obj
         /\ heap' = r.heap
    /\ pc' = "fill_a"
    /\ UNCHANGED <<fpc, fault, rng, a, s, it, st, ed, out, seeds, log, dotVars, fillVars>>

\* fill_rand(a): the call
CallFillA ==
    /\ pc = "fill_a"
    /\ fpc = "idle"
    /\ fm' = a
    /\ fi' = 0
    /\ fpc' = "fill_i"
    /\ log' = Append(log, "fill")
    /\ UNCHANGED <<pc, heap, fault, rng, a, b, s, it, st, ed, out, seeds, fj, dotVars>>

\* fill_rand(a): the return
RetFillA ==
    /\ pc = "fill_a"
    /\ fpc = "fill_done"
    /\ fpc' = "idle"
    /\ pc' = "fill_b"
    /\ UNCHANGED <<heap, fault, rng, a, b, s, it, st, ed, out, seeds, log, dotVars, fillVars>>

\* fill_rand(b): the call
CallFillB ==
    /\ pc = "fill_b"
    /\ fpc = "idle"
    /\ fm' = b
    /\ fi' = 0
    /\ fpc' = "fill_i"
    /\ log' = Append(log, "fill")
    /\ UNCHANGED <<pc, heap, fault, rng, a, b, s, it, st, ed, out, seeds, fj, dotVars>>

\* fill_rand(b): the return
RetFillB ==
    /\ pc = "fill_b"
    /\ fpc = "fill_done"
    /\ fpc' = "idle"
    /\ pc' = "start"
    /\ UNCHANGED <<heap, fault, rng, a, b, s, it, st, ed, out, seeds, log, dotVars, fillVars>>

\* auto st = now(); float s = 0; int i = 0
Start ==
    /\ pc = "start"
    /\ st' = 0
    /\ s' = Zero
    /\ it' = 0
    /\ log' = Append(log, "now")
    /\ pc' = "loop"
    /\ UNCHANGED <<fpc, heap, fault, rng, a, b, ed, out, seeds, dotVars, fillVars>>

\* for (...; i < T; ...) s += dot(a, b): the call
LoopCall ==
    /\ pc = "loop"
    /\ fpc = "idle"
    /\ LoopTest(it)
    /\ fpc' = "dot_enter"
    /\ log' = Append(log, "dot")
    /\ UNCHANGED <<pc, heap, fault, rng, a, b, s, it, st, ed, out, seeds, dotVars, fillVars>>

\* s += dot(a, b): the return; ++i
LoopAdd ==
    /\ pc = "loop"
    /\ fpc = "dot_done"
    /\ s' = LoopAccumulate(s, ret)
    /\ it' = Incr(it)
    /\ fpc' = "idle"
    /\ log' = Append(log, "add")
    /\ UNCHANGED <<pc, heap, fault, rng, a, b, st, ed, out, seeds, dotVars, fillVars>>

\* i < T fails
LoopDone ==
    /\ pc = "loop"
    /\ fpc = "idle"
    /\ ~LoopTest(it)
    /\ pc' = "end"
    /\ UNCHANGED <<fpc, heap, fault, rng, a, b, s, it, st, ed, out, seeds, log, dotVars, fillVars>>

\* auto ed = now()
End ==
    /\ pc = "end"
    /\ ed' \in Now(st)
    /\ log' = Append(log, "now")
    /\ pc' = "cerr"
    /\ UNCHANGED <<fpc, heap, fault, rng, a, b, s, it, st, out, seeds, dotVars, fillVars>>

WriteErr ==
    /\ pc = "cerr"
    /\ out' = Append(out, ErrLine(s))
    /\ log' = Append(log, "write")
    /\ pc' = "cout"
    /\ UNCHANGED <<fpc, heap, fault, rng, a, b, s, it, st, ed, seeds, dotVars, fillVars>>

WriteOut ==
    /\ pc = "cout"
    /\ out' = Append(out, OutLine(st, ed))
    /\ log' = Append(log, "write")
    /\ pc' = "dtor_b"
    /\ UNCHANGED <<fpc, heap, fault, rng, a, b, s, it, st, ed, seeds, dotVars, fillVars>>

\* the closing brace of main: b is destroyed, then a
DtorB ==
    /\ pc = "dtor_b"
    /\ heap' = MatrixDelete(heap, b)
    /\ fault' = (fault \/ ~IsLive(heap, b))
    /\ pc' = IF fault' THEN "undefined" ELSE "dtor_a"
    /\ UNCHANGED <<fpc, rng, a, b, s, it, st, ed, out, seeds, log, dotVars, fillVars>>

DtorA ==
    /\ pc = "dtor_a"
    /\ heap' = MatrixDelete(heap, a)
    /\ fault' = (fault \/ ~IsLive(heap, a))
    /\ pc' = IF fault' THEN "undefined" ELSE "done"
    /\ UNCHANGED <<fpc, rng, a, b, s, it, st, ed, out, seeds, log, dotVars, fillVars>>

Init ==
    /\ pc = "seed"
    /\ fpc = "idle"
    /\ heap = <<>>
    /\ fault = FALSE
    /\ rng = RandEnds
    /\ seeds = 0
    /\ a = NoMatrix /\ b = NoMatrix /\ c = NoMatrix /\ fm = NoMatrix
    /\ s = Zero /\ acc = Zero /\ ret = Zero
    /\ it = 0 /\ i = 0 /\ j = 0 /\ k = 0 /\ fi = 0 /\ fj = 0
    /\ st = 0 /\ ed = 0
    /\ out = <<>> /\ log = <<>>

Next ==
    \/ Seed
    \/ CtorA
    \/ CtorB
    \/ CallFillA
    \/ RetFillA
    \/ CallFillB
    \/ RetFillB
    \/ FillRow
    \/ FillRowsDone
    \/ FillElement
    \/ FillColsDone
    \/ Start
    \/ LoopCall
    \/ LoopAdd
    \/ LoopDone
    \/ DotEnter
    \/ DotRow
    \/ DotRowsDone
    \/ DotCol
    \/ DotColsDone
    \/ DotInner
    \/ DotStore
    \/ DotReturn
    \/ DotDestroy
    \/ End
    \/ WriteErr
    \/ WriteOut
    \/ DtorB
    \/ DtorA

Spec == Init /\ [][Next]_vars

\* The program is one thread that nothing suspends: a step that can be
\* taken is taken.
FairSpec == Spec /\ WF_vars(Next)

(***************************************************************************)
(* The kernel on given operands: a caller builds A (x by y) and B (y by z) *)
(* element by element through operator() and calls dot(A, B) once.         *)
(***************************************************************************)

RECURSIVE SetAll(_, _, _, _)
\* Assign E[x][y] to every element (x, y) of mat from linear position idx on.
SetAll(h, mat, E, idx) ==
    IF idx >= mat.n * mat.m THEN h
    ELSE SetAll(Set(h, mat, idx \div mat.m, idx % mat.m, E[idx \div mat.m][idx % mat.m]),
                mat, E, idx + 1)

\* All x by y arrays over the values V.
Arrays(x, y, V) == [0..(x - 1) -> [0..(y - 1) -> V]]

Identity(y) ==
    [r \in 0..(y - 1) |-> [q \in 0..(y - 1) |-> IntToFloat(IF r = q THEN 1 ELSE 0)]]

LitA == [r \in 0..1 |-> [q \in 0..1 |-> IntToFloat(2 * r + q + 1)]]
LitB == [r \in 0..1 |-> [q \in 0..1 |-> IntToFloat(2 * r + q + 5)]]

\* The heap and the operands after the caller has built A = EA and B = EB.
Operands(EA, x, y, EB, y2, z) ==
    LET ra == MatrixNew(<<>>, x, y)
        rb == MatrixNew(ra.heap, y2, z)
    IN  /\ a = ra.obj
        /\ b = rb.obj
        /\ heap = SetAll(SetAll(rb.heap, ra.obj, EA, 0), rb.obj, EB, 0)

InitKernel ==
    /\ \/ \E x \in 1..MaxN, y \in 1..MaxP, z \in 1..MaxM :
            \E EA \in Arrays(x, y, ElemVals), EB \in Arrays(y, z, ElemVals) :
               Operands(EA, x, y, EB, y, z)
       \/ Operands(LitA, 2, 2, LitB, 2, 2)
       \/ \E x \in 1..MaxN, y \in 1..MaxP :
            \E EA \in Arrays(x, y, WideVals) : Operands(EA, x, y, Identity(y), y, y)
    /\ pc = "caller"
    /\ fpc = "dot_enter"
    /\ c = NoMatrix
    /\ i = 0 /\ j = 0 /\ k = 0 /\ acc = Zero /\ ret = Zero
    /\ fm = NoMatrix /\ fi = 0 /\ fj = 0
    /\ s = Zero /\ it = 0 /\ st = 0 /\ ed = 0
    /\ out = <<>> /\ log = <<>>
    /\ seeds = 0
    /\ rng = {}
    /\ fault = FALSE

NextKernel ==
    \/ DotEnter
    \/ DotRow
    \/ DotRowsDone
    \/ DotCol
    \/ DotColsDone
    \/ DotInner
    \/ DotStore
    \/ DotReturn
    \/ DotDestroy

SpecKernel == InitKernel /\ [][NextKernel]_vars

(***************************************************************************)
(* The container alone: a caller constructs a matrix and, up to MaxOps      *)
(* times, assigns an element in range and reads it back.                   *)
(***************************************************************************)

\* The indices the caller may use on mat: 0 <= x < n, 0 <= y < m.
Indices(mat) == (0..(mat.n - 1)) \X (0..(mat.m - 1))

InitMatrix ==
    /\ \E x \in 1..MaxN, y \in 1..MaxP :
          LET r == MatrixNew(<<>>, x, y) IN a = r.obj /\ heap = r.heap
    /\ pc = "caller"
    /\ fpc = "matrix"
    /\ b = NoMatrix /\ c = NoMatrix /\ fm = NoMatrix
    /\ i = 0 /\ j = 0 /\ k = 0 /\ acc = Zero /\ ret = Zero
    /\ fi = 0 /\ fj = 0
    /\ s = Zero /\ it = 0 /\ st = 0 /\ ed = 0
    /\ out = <<>> /\ log = <<>>
    /\ seeds = 0
    /\ rng = {}
    /\ fault = FALSE

\* a(x, y) = v; the arguments are kept in i, j and acc
MatrixSet ==
    /\ fpc \in {"matrix", "matrix_got"}
    /\ it < MaxOps
    /\ it' = Incr(it)
    /\ \E xy \in Indices(a), v \in ElemVals :
         /\ heap' = Set(heap, a, xy[1], xy[2], v)
         /\ fault' = (fault \/ ~InBuffer(heap, a, xy[1], xy[2]))
         /\ i' = xy[1]
         /\ j' = xy[2]
         /\ acc' = v
    /\ fpc' = IF fault' THEN "undefined" ELSE "matrix_set"
    /\ UNCHANGED <<rng, c, k, ret, pc, a, b, s, st, ed, out, seeds, log, fillVars>>

\* the read a(i, j) right after the assignment
MatrixGet ==
    /\ fpc = "matrix_set"
    /\ \E v \in Get(heap, a, i, j) : ret' = v
    /\ fault' = (fault \/ ~Defined(heap, a, i, j))
    /\ fpc' = IF fault' THEN "undefined" ELSE "matrix_got"
    /\ UNCHANGED <<heap, rng, c, i, j, k, acc, mainVars, fillVars>>

NextMatrix ==
    \/ MatrixSet
    \/ MatrixGet

SpecMatrix == InitMatrix /\ [][NextMatrix]_vars

(***************************************************************************)
(* The filler alone: a caller constructs a matrix and calls fill_rand on   *)
(* it once, rand() returning any of RandSamples at each call.              *)
(***************************************************************************)

InitFill ==
    /\ \E x \in 1..MaxN, y \in 1..MaxP :
          LET r == MatrixNew(<<>>, x, y) IN a = r.obj /\ fm = r.obj /\ heap = r.heap
    /\ pc = "caller"
    /\ fpc = "fill_i"
    /\ b = NoMatrix /\ c = NoMatrix
    /\ i = 0 /\ j = 0 /\ k = 0 /\ acc = Zero /\ ret = Zero
    /\ fi = 0 /\ fj = 0
    /\ s = Zero /\ it = 0 /\ st = 0 /\ ed = 0
    /\ out = <<>> /\ log = <<>>
    /\ seeds = 0
    /\ rng = RandSamples
    /\ fault = FALSE

NextFill ==
    \/ FillRow
    \/ FillRowsDone
    \/ FillElement
    \/ FillColsDone

SpecFill == InitFill /\ [][NextFill]_vars

(***************************************************************************)
(* Properties                                                              *)
(***************************************************************************)

One == IntToFloat(1)

\* The element (x, y) of mat, for an access that is defined.
Elem(h, mat, x, y) == CHOOSE v \in Get(h, mat, x, y) : TRUE

\* Every element of mat has been written.
Filled(h, mat) == \A xy \in Indices(mat) : Defined(h, mat, xy[1], xy[2])

\* Every element of mat holds an integer.
IntegerValued(h, mat) ==
    \A xy \in Indices(mat) :
        /\ Defined(h, mat, xy[1], xy[2])
        /\ IntToFloat(FloatToInt(Elem(h, mat, xy[1], xy[2]))) = Elem(h, mat, xy[1], xy[2])

RECURSIVE SumProducts(_, _, _, _, _, _)
\* The integer sum over q < len of left(x, q) * right(q, y).
SumProducts(h, left, right, x, y, len) ==
    IF len = 0 THEN 0
    ELSE SumProducts(h, left, right, x, y, len - 1)
         + FloatToInt(Elem(h, left, x, len - 1)) * FloatToInt(Elem(h, right, len - 1, y))

\* mat holds the array E.
Holds(h, mat, E, rows, cols) ==
    /\ mat.n = rows
    /\ mat.m = cols
    /\ \A xy \in Indices(mat) : Get(h, mat, xy[1], xy[2]) = {E[xy[1]][xy[2]]}

LitC == [r \in 0..1 |-> [q \in 0..1 |-> IntToFloat(IF r = 0 THEN 19 + 3 * q ELSE 43 + 7 * q)]]

\* dot has computed its result and not yet destroyed it.
DotComputed == fpc = "dot_dtor"

\* C1: when dot has run on A (n by p) and B (p by m) with integer elements,
\* every C(x, y) holds the sum over q of A(x, q) * B(q, y) and the value
\* returned is C(0, 0); on A = [[1,2],[3,4]], B = [[5,6],[7,8]] the result is
\* [[19,22],[43,50]] and the value returned is 19.
C1_DotIsProduct ==
    (DotComputed /\ a.m = b.n /\ IntegerValued(heap, a) /\ IntegerValued(heap, b)) =>
        /\ c.n = a.n
        /\ c.m = b.m
        /\ \A xy \in Indices(c) :
              Get(heap, c, xy[1], xy[2])
                 = {IntToFloat(SumProducts(heap, a, b, xy[1], xy[2], a.m))}
        /\ {ret} = Get(heap, c, 0, 0)
        /\ (Holds(heap, a, LitA, 2, 2) /\ Holds(heap, b, LitB, 2, 2)) =>
              (Holds(heap, c, LitC, 2, 2) /\ ret = IntToFloat(19))

C1_Witness ==
    /\ DotComputed
    /\ Holds(heap, a, LitA, 2, 2)
    /\ Holds(heap, b, LitB, 2, 2)
    /\ Get(heap, c, 1, 1) = {IntToFloat(50)}

\* C2: an assignment a(x, y) = v to an element in range makes the read of
\* (x, y) yield v, the read that follows returns v, and the assignment leaves
\* what every other element in range yields as it was; the offsets of the
\* elements in range are rows * cols different positions of the buffer.
C2_SetThenGet ==
    [][ /\ fpc' = "matrix_set" =>
              /\ Get(heap', a', i', j') = {acc'}
              /\ \A xy \in Indices(a) :
                    xy # <<i', j'>> =>
                       /\ Get(heap', a', xy[1], xy[2]) = Get(heap, a, xy[1], xy[2])
                       /\ Defined(heap', a', xy[1], xy[2]) = Defined(heap, a, xy[1], xy[2])
        /\ fpc' = "matrix_got" => ret' = acc
        /\ Cardinality({Offset(a, xy[1], xy[2]) : xy \in Indices(a)}) = a.n * a.m
        /\ {Offset(a, xy[1], xy[2]) : xy \in Indices(a)} = DOMAIN heap[a.data].cells
      ]_vars

C2_Witness ==
    /\ fpc = "matrix_got"
    /\ a.n = 2
    /\ a.m = 2
    /\ i = 1
    /\ j = 0
    /\ ret = One
    /\ Get(heap, a, 1, 0) = {One}
    /\ Get(heap, a, 0, 1) = {Zero}

\* C3 as stated: fill_rand leaves every element in [-1, 1).
C3_FillHalfOpen ==
    fpc = "fill_done" =>
        \A xy \in Indices(a) :
            /\ Defined(heap, a, xy[1], xy[2])
            /\ FLeq(FNeg(One), Elem(heap, a, xy[1], xy[2]))
            /\ FLess(Elem(heap, a, xy[1], xy[2]), One)

\* C3, amended: fill_rand writes every element, and each value written lies
\* in [-1, 1], both ends included.
C3_FillClosed ==
    /\ fpc = "fill_done" => Filled(heap, a)
    /\ \A xy \in Indices(a) :
          Defined(heap, a, xy[1], xy[2]) =>
             /\ FLeq(FNeg(One), Elem(heap, a, xy[1], xy[2]))
             /\ FLeq(Elem(heap, a, xy[1], xy[2]), One)

C3_Witness ==
    /\ fpc = "fill_done"
    /\ a.n = 2
    /\ a.m = 2
    /\ Get(heap, a, 0, 0) = {FNeg(One)}
    /\ Get(heap, a, 0, 1) = {FillValue(2147483583)}
    /\ Get(heap, a, 1, 1) = {One}

IsPrefix(s1, s2) == Len(s1) <= Len(s2) /\ SubSeq(s2, 1, Len(s1)) = s1

RECURSIVE Rounds(_)
Rounds(t) == IF t = 0 THEN <<>> ELSE <<"dot", "add">> \o Rounds(t - 1)

\* The calls of a whole run of main, in order.
ExpectedLog ==
    <<"srand", "fill", "fill", "now">> \o Rounds(T) \o <<"now", "write", "write">>

DotPcs == {"dot_enter", "dot_i", "dot_j", "dot_k", "dot_return", "dot_dtor", "dot_done"}

FillPcs == {"fill_i", "fill_j", "fill_done"}

\* The positions of main at which both operands are constructed and filled.
OperandsReady == {"start", "loop", "end", "cerr", "cout", "dtor_b"}

\* The positions of main after the second clock reading.
AfterEnd == {"cerr", "cout", "dtor_b", "dtor_a", "done"}

\* C5: main is one sequence of calls: srand once and first, the two fills,
\* the first clock reading, T times the kernel followed by the addition of
\* its result, the second clock reading, then the two writes; A is n by p
\* and B is p by m, both wholly written before the first clock reading; the
\* kernel runs only inside the loop; nothing is written before the second
\* clock reading.
C5_DriverIsLinear ==
    /\ IsPrefix(log, ExpectedLog)
    /\ pc = "done" => log = ExpectedLog
    /\ seeds = (IF log = <<>> THEN 0 ELSE 1)
    /\ pc \in OperandsReady =>
          /\ a.n = n /\ a.m = p /\ Filled(heap, a)
          /\ b.n = p /\ b.m = m /\ Filled(heap, b)
    /\ fpc \in FillPcs => pc \in {"fill_a", "fill_b"}
    /\ fpc \in DotPcs => (pc = "loop" /\ it < T)
    /\ pc = "loop" => it <= T
    /\ pc \in {"end"} \cup AfterEnd => it = T
    /\ out # <<>> => pc \in AfterEnd

C5_Witness ==
    /\ pc = "done"
    /\ it = T
    /\ Len(log) = 7 + 2 * T
    /\ Len(out) = 2

C7_AveragePositive ==
    /\ pc \in AfterEnd => ed > st
    /\ Len(out) = 2 => out[2].elapsed > 0

LiveBuffers == {id \in 1..Len(heap) : heap[id].frees = 0}

\* C8: no buffer is released twice; at most three are live at a time; A and
\* B are live from their construction to the end of main; each call of dot
\* allocates one buffer that no other matrix has and releases it before it
\* returns; when main has ended every buffer has been released once.
C8_BufferOwnership ==
    /\ \A id \in 1..Len(heap) : heap[id].frees <= 1
    /\ Cardinality(LiveBuffers) <= 3
    /\ pc \in {"ctor_b", "fill_a", "fill_b"} \cup OperandsReady => IsLive(heap, a)
    /\ pc \in {"fill_a", "fill_b"} \cup OperandsReady => IsLive(heap, b)
    /\ fpc \in {"dot_i", "dot_j", "dot_k", "dot_return", "dot_dtor"} =>
          /\ IsLive(heap, c)
          /\ c.data = Len(heap)
          /\ c.data \notin {a.data, b.data}
          /\ Len(heap) = 3 + it
          /\ LiveBuffers = {a.data, b.data, c.data}
    /\ fpc = "dot_done" =>
          /\ heap[c.data].frees = 1
          /\ Len(heap) = 3 + it
    /\ (pc = "loop" /\ fpc \in {"idle", "dot_enter", "dot_done"}) =>
          LiveBuffers = {a.data, b.data}
    /\ pc = "done" =>
          /\ Len(heap) = 2 + T
          /\ \A id \in 1..Len(heap) : heap[id].frees = 1

C8_Witness ==
    /\ pc = "done"
    /\ Len(heap) = 2 + T
    /\ LiveBuffers = {}
    /\ heap[Len(heap)].frees = 1

\* mat has the dimensions rows by cols and a live buffer of rows * cols
\* elements.
Shaped(mat, rows, cols) ==
    /\ mat.n = rows
    /\ mat.m = cols
    /\ IsLive(heap, mat)
    /\ heap[mat.data].len = rows * cols
    /\ DOMAIN heap[mat.data].cells = 0..(rows * cols - 1)

\* The access to (x, y) of mat is at offset x * cols + y, inside the buffer.
InRange(mat, x, y) ==
    /\ Offset(mat, x, y) = x * mat.m + y
    /\ x * mat.m + y >= 0
    /\ x * mat.m + y < mat.n * mat.m
    /\ InBuffer(heap, mat, x, y)

Product00 == SumProducts(heap, a, b, 0, 0, a.m)

\* C10: no step of the loop, those of dot included, changes A or B or their
\* elements; every call of dot returns the same C(0, 0); s is the number of
\* finished iterations times C(0, 0), and T times C(0, 0) after the loop.
C10_OperandsUnchanged ==
    [][ pc = "loop" =>
          /\ a' = a
          /\ b' = b
          /\ heap'[a.data] = heap[a.data]
          /\ heap'[b.data] = heap[b.data]
          /\ fpc' = "dot_done" => ret' = IntToFloat(Product00)
          /\ s' = IntToFloat(it' * Product00)
          /\ pc' = "end" => (it' = T /\ s' = IntToFloat(T * Product00))
      ]_vars

C10_Witness ==
    /\ pc = "end"
    /\ it = T
    /\ T >= 2
    /\ ret = IntToFloat(p)
    /\ s = IntToFloat(T * p)

====
